---- MODULE Spec2Model ----
(***************************************************************************)
(* Model of the Fawkes crash agents:                                       *)
(*   src/agents/LinuxCrashAgent.cpp           (Variant B, core-file poller) *)
(*   src/agents/FawkesCrashAgent-Windows.cpp  (Variant A, in-process trap)  *)
(*                                                                         *)
(* Conventions.                                                            *)
(*  - Text is a TLA+ string; a file name that the code parses is kept as a *)
(*    sequence of one-character strings and turned into text with Str.     *)
(*  - An unsigned machine integer is a sequence of 16-bit limbs, most      *)
(*    significant first (2 limbs: DWORD, 4 limbs: 64-bit unsigned long),   *)
(*    because the values the agents store (0xC0000005, (unsigned long)-1)  *)
(*    do not fit the model checker's integers.                             *)
(***************************************************************************)
EXTENDS Integers, Sequences, FiniteSets, TLC

(***************************************************************************)
(* Machine integers                                                        *)
(***************************************************************************)
LimbBase == 65536

INT_MAX == 2147483647

\* int -> unsigned long (64 bit): sign extension, as in
\* "unsigned long pidVal = parsePID(...)".
ToUnsignedLong(i) ==
    LET s == IF i < 0 THEN LimbBase - 1 ELSE 0
    IN  << s, s, (i \div LimbBase) % LimbBase, i % LimbBase >>

\* A DWORD from its two 16-bit halves.
DWord(hi, lo) == << hi, lo >>

IsZero(n) == \A k \in 1..Len(n) : n[k] = 0

\* Long division of a limb sequence by a small divisor: <<quotient, remainder>>.
RECURSIVE DivLimbs(_, _, _, _)
DivLimbs(n, d, k, acc) ==
    IF k > Len(n) THEN acc
    ELSE LET cur == acc[2] * LimbBase + n[k]
         IN  DivLimbs(n, d, k + 1, << Append(acc[1], cur \div d), cur % d >>)

DivSmall(n, d) == DivLimbs(n, d, 1, << << >>, 0 >>)

DigitChars == << "0", "1", "2", "3", "4", "5", "6", "7",
                 "8", "9", "a", "b", "c", "d", "e", "f" >>

RECURSIVE DigitsIn(_, _)
DigitsIn(n, base) ==
    IF IsZero(n) THEN ""
    ELSE LET qr == DivSmall(n, base)
         IN  DigitsIn(qr[1], base) \o DigitChars[qr[2] + 1]

\* std::to_string(unsigned long): decimal digits.
to_string(n) == IF IsZero(n) THEN "0" ELSE DigitsIn(n, 10)

\* operator<< under std::hex: lowercase hexadecimal digits, no prefix, no padding.
StreamHex(n) == IF IsZero(n) THEN "0" ELSE DigitsIn(n, 16)

(***************************************************************************)
(* Text                                                                    *)
(***************************************************************************)
RECURSIVE Str(_)
Str(cs) == IF cs = << >> THEN "" ELSE Head(cs) \o Str(Tail(cs))

\* filename.rfind(prefix, 0) == 0
StartsWith(cs, prefix) ==
    Len(cs) >= Len(prefix) /\ SubSeq(cs, 1, Len(prefix)) = prefix

CorePrefix == << "c", "o", "r", "e", "." >>

DecimalChars == { "0", "1", "2", "3", "4", "5", "6", "7", "8", "9" }

SpaceChars == { " ", "\t", "\n" }

DigitValue(c) == CHOOSE v \in 0..9 : DigitChars[v + 1] = c

\* The digits std::stoi consumes: the longest prefix of decimal digits.
RECURSIVE LeadingDigits(_)
LeadingDigits(cs) ==
    IF cs # << >> /\ Head(cs) \in DecimalChars
    THEN << Head(cs) >> \o LeadingDigits(Tail(cs))
    ELSE << >>

RECURSIVE SkipSpace(_)
SkipSpace(cs) ==
    IF cs # << >> /\ Head(cs) \in SpaceChars THEN SkipSpace(Tail(cs)) ELSE cs

\* strtol's accumulation of a digit string into the int range: the value
\* [ok |-> TRUE, value |-> v] (v negated when neg), or ok = FALSE when it
\* leaves [INT_MIN, INT_MAX].
RECURSIVE Accumulate(_, _, _)
Accumulate(ds, acc, neg) ==
    IF ds = << >> THEN [ok |-> TRUE, value |-> acc]
    ELSE LET d    == DigitValue(Head(ds))
             last == IF neg THEN 8 ELSE 7
             fits == IF neg
                     THEN acc > -(INT_MAX \div 10) \/ (acc = -(INT_MAX \div 10) /\ d <= last)
                     ELSE acc < INT_MAX \div 10 \/ (acc = INT_MAX \div 10 /\ d <= last)
         IN  IF ~fits THEN [ok |-> FALSE, value |-> 0]
             ELSE Accumulate(Tail(ds), IF neg THEN acc * 10 - d ELSE acc * 10 + d, neg)

\* std::stoi(s): [ok |-> FALSE] when it throws (no digits: invalid_argument,
\* outside int: out_of_range), else [ok |-> TRUE, value |-> the int].
stoi(s) ==
    LET t    == SkipSpace(s)
        neg  == t # << >> /\ Head(t) = "-"
        sign == t # << >> /\ Head(t) \in { "-", "+" }
        ds   == LeadingDigits(IF sign THEN Tail(t) ELSE t)
        v    == Accumulate(ds, 0, neg)
    IN  IF ds = << >> THEN [ok |-> FALSE, value |-> 0] ELSE v

\* A parse that recognises no process id.
parsePIDNone(filename) == -1

\* int parsePID(const std::string& filename)
parsePID(filename) ==
    IF StartsWith(filename, CorePrefix)
    THEN LET r == stoi(SubSeq(filename, Len(CorePrefix) + 1, Len(filename)))
         IN  IF r.ok THEN r.value ELSE -1
    ELSE -1

(***************************************************************************)
(* Program constants                                                       *)
(***************************************************************************)
CRASH_DIR == "/mnt/virtfs/fawkes/crashes"

CORE_PATTERN_VALUE == "/mnt/virtfs/fawkes/crashes/core.%p"

CRASH_SUBDIR == "Z:\\qemu"

\* 0xC0000005 as the unsigned long the poller stores.
PlaceholderCode == << 0, 0, 49152, 5 >>

\* DumpType 2 => Full dump
FullDump == 2

\* Results of an unhandled-exception filter.
DefaultContinueSearch == "EXCEPTION_CONTINUE_SEARCH"

EXCEPTION_EXECUTE_HANDLER == "EXCEPTION_EXECUTE_HANDLER"

FilterResults ==
    { "EXCEPTION_EXECUTE_HANDLER", "EXCEPTION_CONTINUE_SEARCH",
      "EXCEPTION_CONTINUE_EXECUTION" }

(***************************************************************************)
(* Bounds of the model                                                     *)
(***************************************************************************)
\* Artifacts written into the crash directory (one that pre-exists included).
MaxWrites == 2

\* Faults trapped by the unhandled-exception filter.
MaxFaults == 2

\* Runs of the configurator in ConfigSpec.
MaxRuns == 2

(***************************************************************************)
(* The environment's inputs                                                *)
(***************************************************************************)
\* core.42: what the kernel writes for process 42.
Name42 == CorePrefix \o << "4", "2" >>

\* core.tmp: a file with the prefix and no process id.
NameTmp == CorePrefix \o << "t", "m", "p" >>

\* Names under which artifacts appear in the crash directory.
ArtifactNames == { Name42, NameTmp }

\* Entries of the crash directory that are no crash artifacts and stay there:
\* a regular file without the prefix and a subdirectory with it, both newer
\* than any artifact.
OtherEntries ==
    << [name |-> << "n", "o", "t", "e", "s" >>, kind |-> "regular", mtime |-> 1000],
       [name |-> CorePrefix \o << "d" >>, kind |-> "directory", mtime |-> 1000] >>

\* Process id of the Windows agent (GetCurrentProcessId).
AgentPid == DWord(0, 4242)

\* Fault codes the filter may be handed.
AccessViolation == DWord(49152, 5)

StackOverflow == DWord(49152, 253)

\* What a fault brings with it: its code, whether GetModuleFileNameA
\* succeeds, whether the record file can be opened, and whether the clock
\* has moved on to the next second since the last record file was named.
FaultInputs ==
    { [code |-> AccessViolation, exeOk |-> TRUE,  openOk |-> TRUE,  tick |-> 1],
      [code |-> StackOverflow,   exeOk |-> TRUE,  openOk |-> TRUE,  tick |-> 0],
      [code |-> StackOverflow,   exeOk |-> FALSE, openOk |-> TRUE,  tick |-> 1],
      [code |-> AccessViolation, exeOk |-> TRUE,  openOk |-> FALSE, tick |-> 0] }

AgentExe == "C:\\agent.exe"

Agents == { "linux", "windows" }

\* Threads of the Windows agent on which a fault can be trapped.
HThreads == { "main", "mount" }

(***************************************************************************)
(* State                                                                   *)
(***************************************************************************)
VARIABLES
    agent,            \* which agent this run is: "linux" or "windows"
    alive,            \* FALSE once the process has terminated
    \* --- operating-system configuration
    failAt,           \* the first configuration call the OS rejects, or "none"
    osConfig,         \* registry values / core_pattern / core-size limit
    configRuns,       \* result and configuration after each configurator run
    dirUp,            \* the crash directory exists and is accessible
    \* --- the Store
    g_crashHappened,
    g_lastCrash,
    g_crashMutex,     \* owner of the mutex: "none" or a thread
    \* --- main thread: start-up, then the status responder
    mainPc,
    crash,            \* StartTCPServer's local "crash"
    response,         \* StartTCPServer's local "response"
    everSentCrash,    \* some response sent so far reported a crash
    \* --- Linux: crash directory and CrashWatcherLoop
    files,            \* artifact name -> [mtime, id]; id 0: absent
    now,              \* latest modification time handed out
    nWrites,          \* artifacts written so far
    readdirOrder,     \* order in which the directory lists its artifacts
    wPc,
    lastCore,
    listing,          \* entries the current iteration has listed
    newestFull,
    pidVal,
    \* --- Windows: MyUnhandledExceptionFilter, per faulting thread
    g_originalFilter,
    hPc,
    hLocal,           \* per thread: code, exePath, jsonFile
    winFiles,         \* crash JSON files: path -> text
    nFaults,
    \* --- history variables
    stamp,            \* per Store field: the update that wrote it (0: initial)
    nUpd,             \* Store updates begun
    lastEvent,        \* the record the latest update begun installs
    loadEpoch,        \* updates completed when the current query loaded the flag
    reportCount,      \* artifact id -> Store updates made for it
    updOf,            \* per thread: the update it is performing
    wArt,             \* artifact id the poller's pending update is for
    dirChanged,       \* the directory changed since the poll that last reported
    unreported        \* an artifact newer than all files was written, no update begun since

envVars == << failAt, osConfig, configRuns, dirUp >>

storeVars == << g_crashHappened, g_lastCrash, g_crashMutex, stamp, nUpd, updOf, lastEvent >>

mainVars == << mainPc, crash, response, everSentCrash, loadEpoch >>

dirVars == << files, now, nWrites, readdirOrder >>

watcherVars == << wPc, lastCore, listing, newestFull, pidVal, reportCount, wArt, dirChanged,
                 unreported >>

trapVars == << g_originalFilter, hPc, hLocal, winFiles, nFaults >>

vars == << agent, alive, envVars, storeVars, mainVars, dirVars, watcherVars, trapVars >>

(***************************************************************************)
(* The Store: CrashInfo g_lastCrash, zero-initialised static storage       *)
(***************************************************************************)
ZeroOf(a) == IF a = "linux" THEN ToUnsignedLong(0) ELSE DWord(0, 0)

EmptyCrashInfo(a) ==
    [haveCrash |-> FALSE, exePath |-> "", pid |-> ZeroOf(a),
     exceptionCode |-> ZeroOf(a), crashFile |-> ""]

InitialStamp ==
    [flag |-> 0, haveCrash |-> 0, exePath |-> 0, pid |-> 0,
     exceptionCode |-> 0, crashFile |-> 0]

DataFields == { "haveCrash", "exePath", "pid", "exceptionCode", "crashFile" }

Threads == { "main", "watcher", "mount" }

\* Positions inside the detector's critical section, named by the statement
\* about to execute.
WritePcs == { "flag", "have", "exe", "pid", "code", "file" }

UpdatePcs == WritePcs \cup { "unlock" }

\* A critical section that leaves out the assignment of pid.
NextWritePcSkipPid(pc) ==
    CASE pc = "flag" -> "have"
      [] pc = "have" -> "exe"
      [] pc = "exe"  -> "code"
      [] pc = "pid"  -> "code"
      [] pc = "code" -> "file"
      [] pc = "file" -> "unlock"

NextWritePc(pc) ==
    CASE pc = "flag" -> "have"
      [] pc = "have" -> "exe"
      [] pc = "exe"  -> "pid"
      [] pc = "pid"  -> "code"
      [] pc = "code" -> "file"
      [] pc = "file" -> "unlock"

\* Some detector is inside its critical section.
InUpdate == wPc \in UpdatePcs \/ \E t \in HThreads : hPc[t] \in UpdatePcs

\* Store updates completed: those begun, less the one still in progress.
Completed == IF InUpdate THEN nUpd - 1 ELSE nUpd

\* A detector that clears the flag.
FlagValueFalse == FALSE

\* A detector that stores the flag's old value back.
FlagValueStale == g_crashHappened

\* The value the detector stores into g_crashHappened.
FlagValue == TRUE

\* A detector that flips haveCrash on every update.
HaveCrashToggled == ~g_lastCrash.haveCrash

\* The value it stores into g_lastCrash.haveCrash.
HaveCrashValue == TRUE

\* One assignment of the detector's critical section (Linux lines 148-153,
\* Windows lines 139-144): thread who, at pc, installing event ev.
WriteField(who, pc, ev) ==
    /\ g_crashHappened' = IF pc = "flag" THEN FlagValue ELSE g_crashHappened
    /\ g_lastCrash' =
         CASE pc = "flag" -> g_lastCrash
           [] pc = "have" -> [g_lastCrash EXCEPT !.haveCrash = HaveCrashValue]
           [] pc = "exe"  -> [g_lastCrash EXCEPT !.exePath = ev.exePath]
           [] pc = "pid"  -> [g_lastCrash EXCEPT !.pid = ev.pid]
           [] pc = "code" -> [g_lastCrash EXCEPT !.exceptionCode = ev.exceptionCode]
           [] pc = "file" -> [g_lastCrash EXCEPT !.crashFile = ev.crashFile]
    /\ stamp' =
         CASE pc = "flag" -> [stamp EXCEPT !.flag = updOf[who]]
           [] pc = "have" -> [stamp EXCEPT !.haveCrash = updOf[who]]
           [] pc = "exe"  -> [stamp EXCEPT !.exePath = updOf[who]]
           [] pc = "pid"  -> [stamp EXCEPT !.pid = updOf[who]]
           [] pc = "code" -> [stamp EXCEPT !.exceptionCode = updOf[who]]
           [] pc = "file" -> [stamp EXCEPT !.crashFile = updOf[who]]

\* A mutex that excludes nobody.
CanLockAlways(who) == TRUE

\* std::lock_guard's constructor: the mutex can be taken by thread who.
CanLock(who) == g_crashMutex = "none"

\* Entering the detector's critical section for event ev.
BeginUpdate(who, ev) ==
    /\ CanLock(who)
    /\ g_crashMutex' = who
    /\ nUpd' = nUpd + 1
    /\ updOf' = [updOf EXCEPT ![who] = nUpd + 1]
    /\ lastEvent' = ev

\* std::lock_guard's destructor.
Unlock(who) == g_crashMutex' = "none"

(***************************************************************************)
(* Platform Crash Configurator                                             *)
(***************************************************************************)
FailSteps(a) ==
    IF a = "windows" THEN { "none", "key", "folder", "type" }
    ELSE { "none", "open", "write", "setrlimit" }

\* A freshly installed system: no LocalDumps key, the default core pattern,
\* a soft core-size limit.
FreshConfig ==
    [werKey |-> FALSE, DumpFolder |-> << >>, DumpType |-> << >>,
     core_pattern |-> "core", rlimitCore |-> "limited"]

\* A configurator that refuses a LocalDumps key that exists already.
ConfigureWERExisting(cfg, fail) ==
    IF fail = "key" \/ cfg.werKey THEN [cfg |-> cfg, result |-> FALSE]
    ELSE [cfg |-> [cfg EXCEPT !.werKey = TRUE, !.DumpFolder = << CRASH_SUBDIR >>,
                              !.DumpType = << FullDump >>],
          result |-> fail # "folder"]

\* bool ConfigureWER(): fail names the first registry call that is rejected.
ConfigureWER(cfg, fail) ==
    IF fail = "key" THEN [cfg |-> cfg, result |-> FALSE]
    ELSE LET c1 == [cfg EXCEPT !.werKey = TRUE]
         IN  IF fail = "folder" THEN [cfg |-> c1, result |-> FALSE]
             ELSE LET c2 == [c1 EXCEPT !.DumpFolder = << CRASH_SUBDIR >>]
                      c3 == IF fail = "type" THEN c2
                            ELSE [c2 EXCEPT !.DumpType = << FullDump >>]
                  IN  [cfg |-> c3, result |-> TRUE]

\* bool ConfigureCorePattern(): fail names the first call that is rejected.
\* Opening the file changes nothing; a rejected write (line 90) goes unnoticed.
ConfigureCorePattern(cfg, fail) ==
    IF fail = "open" THEN [cfg |-> cfg, result |-> FALSE]
    ELSE LET c1 == IF fail = "write" THEN cfg
                   ELSE [cfg EXCEPT !.core_pattern = CORE_PATTERN_VALUE]
         IN  IF fail = "setrlimit" THEN [cfg |-> c1, result |-> FALSE]
             ELSE [cfg |-> [c1 EXCEPT !.rlimitCore = "unlimited"], result |-> TRUE]

Configure(a, cfg, fail) ==
    IF a = "windows" THEN ConfigureWER(cfg, fail) ELSE ConfigureCorePattern(cfg, fail)

(***************************************************************************)
(* Status Responder: the JSON text                                         *)
(***************************************************************************)
NoCrashResponse == "{ \"crash\": false }\n"

\* The text std::to_string(std::hex) and "+ std::dec" contribute.  Neither
\* operand is a number or a string, so what they add is left open; the
\* exception code itself goes through std::to_string.
ManipTexts == { "", "1" }

ManipTextsOf(a) == IF a = "linux" THEN ManipTexts ELSE { "" }

\* Linux lines 225-228.
RenderLinux(r, m) ==
    "{ \"crash\": true, \"pid\": " \o to_string(r.pid) \o
    ", \"exe\": \"" \o r.exePath \o "\", \"exception\": \"0x" \o
    m \o to_string(r.exceptionCode) \o m \o
    "\", \"file\": \"" \o r.crashFile \o "\" }\n"

\* Windows lines 293-300.
RenderWindows(r) ==
    LET excStr == "0x" \o StreamHex(r.exceptionCode)
    IN  "{ \"crash\": true, \"pid\": " \o to_string(r.pid) \o
        ", \"exe\": \"" \o r.exePath \o
        "\", \"exception\": \"" \o excStr \o
        "\", \"file\": \"" \o r.crashFile \o "\" }\n"

Render(a, r, m) == IF a = "linux" THEN RenderLinux(r, m) ELSE RenderWindows(r)

\* The condition under which the responder reports the record.
ReportsCrash(c, r) == c /\ r.haveCrash

NoResponse == [text |-> "", stamps |-> {}, epoch |-> 0]

(***************************************************************************)
(* Linux: the crash directory                                              *)
(***************************************************************************)
Absent == [mtime |-> 0, id |-> 0]

PathOf(name) == CRASH_DIR \o "/" \o Str(name)

\* All orders in which the directory may list its artifacts.  The order of a
\* directory listing is unspecified; it is taken as fixed during a run.
Orders ==
    { o \in [1..Cardinality(ArtifactNames) -> ArtifactNames] :
        \A i, j \in DOMAIN o : i # j => o[i] # o[j] }

\* The entries directory_iterator yields for the artifacts in present: the
\* entries that are no artifacts, then the artifacts in listing order.
RECURSIVE ArtifactEntries(_, _)
ArtifactEntries(order, present) ==
    IF order = << >> THEN << >>
    ELSE (IF Head(order) \in present
          THEN << [name |-> Head(order), kind |-> "regular",
                   mtime |-> files[Head(order)].mtime] >>
          ELSE << >>) \o ArtifactEntries(Tail(order), present)

DirEntries(present) == OtherEntries \o ArtifactEntries(readdirOrder, present)

\* A scan that takes every regular file for a crash artifact.
IsCandidateAny(e) == e.kind = "regular"

\* Lines 124-126: the entries the scan considers.
IsCandidate(e) == e.kind = "regular" /\ StartsWith(e.name, CorePrefix)

\* A scan that keeps the oldest artifact.
IsOlder(ftime, newestTime) == ftime < newestTime

\* Line 128: the entry replaces the newest one found so far.
IsNewer(ftime, newestTime) == ftime > newestTime

\* Lines 120-133: the loop over the entries; best is the newest entry so far
\* (name << >>: newestPath still empty, newestTime still file_time_type::min()).
RECURSIVE ScanFrom(_, _)
ScanFrom(entries, best) ==
    IF entries = << >> THEN best
    ELSE LET e == Head(entries)
         IN  ScanFrom(Tail(entries),
                      IF IsCandidate(e) /\ (best.name = << >> \/ IsNewer(e.mtime, best.mtime))
                      THEN e ELSE best)

NoEntry == [name |-> << >>, kind |-> "none", mtime |-> 0]

Newest(entries) == ScanFrom(entries, NoEntry)

\* The record the poller installs for the artifact it selected.
WatcherEvent ==
    [exePath |-> "unknown", pid |-> pidVal,
     exceptionCode |-> PlaceholderCode, crashFile |-> newestFull]

(***************************************************************************)
(* Linux: the environment of the crash directory                           *)
(***************************************************************************)
\* A crash (or anyone) writes an artifact: a new file, or an existing one
\* overwritten.  Its modification time is the latest one or a later one.
EnvWriteArtifact ==
    /\ agent = "linux" /\ alive /\ dirUp
    /\ nWrites < MaxWrites
    /\ \E name \in ArtifactNames, t \in { now, now + 1 } :
         /\ t >= 1
         /\ files' = [files EXCEPT ![name] = [mtime |-> t, id |-> nWrites + 1]]
         /\ now' = t
         /\ unreported' = (unreported \/ t > now)
    /\ nWrites' = nWrites + 1
    /\ dirChanged' = TRUE
    /\ UNCHANGED << agent, alive, envVars, storeVars, mainVars, readdirOrder,
                    wPc, lastCore, listing, newestFull, pidVal, reportCount, wArt,
                    trapVars >>

EnvRemoveArtifact ==
    /\ agent = "linux" /\ alive /\ dirUp
    /\ \E name \in ArtifactNames :
         /\ files[name].id # 0
         /\ files' = [files EXCEPT ![name] = Absent]
    /\ dirChanged' = TRUE
    /\ UNCHANGED << agent, alive, envVars, storeVars, mainVars, now, nWrites,
                    readdirOrder, wPc, lastCore, listing, newestFull, pidVal,
                    reportCount, wArt, unreported, trapVars >>

\* The volume holding the crash directory goes away / comes back.
EnvDirDown ==
    /\ alive /\ dirUp
    /\ dirUp' = FALSE
    /\ dirChanged' = TRUE
    /\ UNCHANGED << agent, alive, failAt, osConfig, configRuns, storeVars,
                    mainVars, dirVars, wPc, lastCore, listing, newestFull, pidVal,
                    reportCount, wArt, unreported, trapVars >>

EnvDirUp ==
    /\ alive /\ ~dirUp
    /\ dirUp' = TRUE
    /\ dirChanged' = TRUE
    /\ UNCHANGED << agent, alive, failAt, osConfig, configRuns, storeVars,
                    mainVars, dirVars, wPc, lastCore, listing, newestFull, pidVal,
                    reportCount, wArt, unreported, trapVars >>

(***************************************************************************)
(* Linux: CrashWatcherLoop                                                 *)
(***************************************************************************)
\* Lines 112-118: the sleep is over; a missing directory ends the iteration.
PollCheck ==
    /\ agent = "linux" /\ alive /\ wPc = "sleep"
    /\ wPc' = IF dirUp THEN "list" ELSE "sleep"
    /\ UNCHANGED << agent, alive, envVars, storeVars, mainVars, dirVars,
                    lastCore, listing, newestFull, pidVal, reportCount, wArt,
                    dirChanged, unreported, trapVars >>

\* Line 123: directory_iterator is constructed and yields the entries;
\* if the directory is gone by now it throws, nothing catches, and
\* std::terminate ends the process.
PollList ==
    /\ agent = "linux" /\ alive /\ wPc = "list"
    /\ IF dirUp
       THEN /\ listing' = { n \in ArtifactNames : files[n].id # 0 }
            /\ wPc' = "stat"
            /\ alive' = alive
       ELSE /\ alive' = FALSE
            /\ UNCHANGED << listing, wPc >>
    /\ UNCHANGED << agent, envVars, storeVars, mainVars, dirVars,
                    lastCore, newestFull, pidVal, reportCount, wArt,
                    dirChanged, unreported, trapVars >>

\* A poller that forgets what it reported.
RememberNothing(path) == lastCore

\* What the poller remembers as last seen after reporting path.
Remember(path) == path

\* Lines 124-144: the entries are examined (last_write_time throws for an
\* entry that has disappeared since it was listed), the newest is selected
\* and compared with lastCore.
PollStat ==
    /\ agent = "linux" /\ alive /\ wPc = "stat"
    /\ IF ~dirUp \/ \E n \in listing : files[n].id = 0
       THEN /\ alive' = FALSE
            /\ UNCHANGED << wPc, lastCore, newestFull, pidVal, wArt, dirChanged >>
       ELSE \E newest \in { Newest(DirEntries(listing)) } :
            LET path == PathOf(newest.name)
            IN  /\ alive' = alive
                /\ IF newest.name # << >> /\ path # lastCore
                   THEN /\ lastCore' = Remember(path)
                        /\ newestFull' = path
                        /\ pidVal' = ToUnsignedLong(parsePID(newest.name))
                        /\ wArt' = IF newest.name \in ArtifactNames
                                   THEN files[newest.name].id ELSE 0
                        \* the report rests on the directory as it is now
                        \* unless it changed after it was listed
                        /\ dirChanged' = (listing # { n \in ArtifactNames : files[n].id # 0 })
                        /\ wPc' = "lock"
                   ELSE /\ wPc' = "sleep"
                        /\ UNCHANGED << lastCore, newestFull, pidVal, wArt, dirChanged >>
    /\ listing' = {}
    /\ UNCHANGED << agent, envVars, storeVars, mainVars, dirVars, reportCount,
                    unreported, trapVars >>

\* Line 147.
WatcherLock ==
    /\ agent = "linux" /\ alive /\ wPc = "lock"
    /\ BeginUpdate("watcher", WatcherEvent)
    /\ reportCount' = [reportCount EXCEPT ![wArt] = @ + 1]
    /\ unreported' = FALSE
    /\ wPc' = "flag"
    /\ UNCHANGED << agent, alive, envVars, g_crashHappened, g_lastCrash, stamp,
                    mainVars, dirVars, lastCore, listing, newestFull, pidVal,
                    wArt, dirChanged, trapVars >>

\* Lines 148-153, one assignment at a time.
WatcherWrite ==
    /\ agent = "linux" /\ alive /\ wPc \in WritePcs
    /\ WriteField("watcher", wPc, WatcherEvent)
    /\ wPc' = NextWritePc(wPc)
    /\ UNCHANGED << agent, alive, envVars, g_crashMutex, nUpd, updOf, lastEvent,
                    mainVars, dirVars, lastCore, listing, newestFull, pidVal,
                    reportCount, wArt, dirChanged, unreported, trapVars >>

\* Line 154.
WatcherUnlock ==
    /\ agent = "linux" /\ alive /\ wPc = "unlock"
    /\ Unlock("watcher")
    /\ wPc' = "sleep"
    /\ UNCHANGED << agent, alive, envVars, g_crashHappened, g_lastCrash, stamp,
                    nUpd, updOf, lastEvent, mainVars, dirVars, lastCore, listing,
                    newestFull, pidVal, reportCount, wArt, dirChanged, unreported, trapVars >>

(***************************************************************************)
(* main(): start-up                                                        *)
(***************************************************************************)
\* Linux line 64, Windows line 71: the configurator runs once.
MainConfigure ==
    /\ alive /\ mainPc = "config"
    /\ LET r == Configure(agent, osConfig, failAt)
       IN  /\ osConfig' = r.cfg
           /\ configRuns' = Append(configRuns, r)
    /\ mainPc' = "mkdir"
    /\ UNCHANGED << agent, alive, failAt, dirUp, storeVars, crash, response, everSentCrash,
                    loadEpoch, dirVars, watcherVars, trapVars >>

\* Linux line 69, Windows line 76: std::filesystem::create_directories, the
\* throwing overload.  An existing directory is no error; when the directory
\* cannot be created the filesystem_error is caught nowhere.
MainCreateDir ==
    /\ alive /\ mainPc = "mkdir"
    /\ \/ /\ dirUp
          /\ UNCHANGED << dirUp, alive >>
          /\ mainPc' = "start"
       \/ /\ ~dirUp
          /\ dirUp' = TRUE
          /\ alive' = alive
          /\ mainPc' = "start"
       \/ /\ ~dirUp
          /\ alive' = FALSE
          /\ UNCHANGED << dirUp, mainPc >>
    /\ UNCHANGED << agent, failAt, osConfig, configRuns, storeVars, crash,
                    response, everSentCrash, loadEpoch, dirVars, watcherVars,
                    trapVars >>

\* Linux line 72: the watcher thread starts.  Windows line 79: the filter is
\* installed (it is in effect once mainPc has left "start").
MainStartDetector ==
    /\ alive /\ mainPc = "start"
    /\ wPc' = IF agent = "linux" THEN "sleep" ELSE wPc
    /\ mainPc' = "server"
    /\ UNCHANGED << agent, alive, envVars, storeVars, crash, response, everSentCrash,
                    loadEpoch, dirVars, lastCore, listing, newestFull,
                    pidVal, reportCount, wArt, dirChanged, unreported, trapVars >>

\* StartTCPServer up to listen(): on a socket, bind or listen failure it
\* returns and main joins the other thread.
MainStartServer ==
    /\ alive /\ mainPc = "server"
    /\ \E ok \in BOOLEAN : mainPc' = IF ok THEN "accept" ELSE "join"
    /\ UNCHANGED << agent, alive, envVars, storeVars, crash, response, everSentCrash,
                    loadEpoch, dirVars, watcherVars, trapVars >>

FilterInstalled == agent = "windows" /\ mainPc \notin { "config", "mkdir", "start" }

(***************************************************************************)
(* Status Responder: StartTCPServer's loop                                 *)
(***************************************************************************)
\* The main thread runs the responder unless it is inside the fault filter.
MainRuns == alive /\ hPc["main"] = "none"

\* Windows lines 274-278: accept() fails and the loop is left.  (On Linux the
\* loop continues.)
RespAcceptFail ==
    /\ MainRuns /\ agent = "windows" /\ mainPc = "accept"
    /\ mainPc' = "join"
    /\ UNCHANGED << agent, alive, envVars, storeVars, crash, response, everSentCrash,
                    loadEpoch, dirVars, watcherVars, trapVars >>

\* Linux line 218, Windows line 286: a query has arrived; the flag is loaded
\* before the mutex is taken.
RespLoad ==
    /\ MainRuns /\ mainPc = "accept"
    /\ crash' = g_crashHappened
    /\ loadEpoch' = Completed
    /\ mainPc' = "lock"
    /\ UNCHANGED << agent, alive, envVars, storeVars, response, everSentCrash,
                    dirVars, watcherVars, trapVars >>

\* Linux line 221, Windows line 289.
RespLock ==
    /\ MainRuns /\ mainPc = "lock"
    /\ CanLock("main")
    /\ g_crashMutex' = "main"
    /\ mainPc' = "build"
    /\ UNCHANGED << agent, alive, envVars, g_crashHappened, g_lastCrash, stamp,
                    nUpd, updOf, lastEvent, crash, response, everSentCrash,
                    loadEpoch, dirVars, watcherVars, trapVars >>

\* Linux lines 222-232, Windows lines 290-306: the response is built from
\* the record and the mutex is released.
RespBuild ==
    /\ MainRuns /\ mainPc = "build"
    /\ \E m \in ManipTextsOf(agent) :
         response' =
           IF ReportsCrash(crash, g_lastCrash)
           THEN [text |-> Render(agent, g_lastCrash, m),
                 stamps |-> { stamp[f] : f \in DataFields },
                 epoch |-> loadEpoch]
           ELSE [text |-> NoCrashResponse, stamps |-> {}, epoch |-> loadEpoch]
    /\ Unlock("main")
    /\ mainPc' = "send"
    /\ UNCHANGED << agent, alive, envVars, g_crashHappened, g_lastCrash, stamp,
                    nUpd, updOf, lastEvent, crash, everSentCrash, loadEpoch,
                    dirVars, watcherVars, trapVars >>

\* Linux lines 234-236, Windows lines 309-314: the response is sent; the
\* iteration's locals go out of scope.
RespSend ==
    /\ MainRuns /\ mainPc = "send"
    /\ everSentCrash' = (everSentCrash \/ response.text # NoCrashResponse)
    /\ response' = NoResponse
    /\ crash' = FALSE
    /\ loadEpoch' = 0
    /\ mainPc' = "accept"
    /\ UNCHANGED << agent, alive, envVars, storeVars, dirVars,
                    watcherVars, trapVars >>

(***************************************************************************)
(* Windows: MyUnhandledExceptionFilter and CreateCrashJSON                 *)
(***************************************************************************)
NoLocal == [code |-> DWord(0, 0), exePath |-> "", jsonFile |-> "", ret |-> ""]

\* strftime("%Y%m%d_%H%M%S") of the model's clock, which counts seconds
\* from an arbitrary minute.
TimeStamp(t) == "20250601_1200" \o DigitChars[(t \div 10) + 1] \o DigitChars[(t % 10) + 1]

\* Lines 167-169.
JsonPath(pid, t) ==
    CRASH_SUBDIR \o "\\" \o "crash_" \o to_string(pid) \o "_" \o TimeStamp(t) \o ".json"

\* The record the filter on thread t installs.
TrapEvent(t) ==
    [exePath |-> hLocal[t].exePath, pid |-> AgentPid,
     exceptionCode |-> hLocal[t].code, crashFile |-> hLocal[t].jsonFile]

\* An otherwise unhandled fault on thread t reaches the filter.  Lines
\* 123-135: the code, the pid and the executable path ("unknown" when
\* GetModuleFileNameA fails) are captured, then CreateCrashJSON (lines
\* 158-185) writes the record file.  A directory that is missing makes
\* create_directories run, which throws inside the filter when it fails
\* and so ends the process; a file that cannot be opened yields "".
Fault(t) ==
    /\ alive /\ FilterInstalled
    /\ hPc[t] = "none"
    /\ nFaults < MaxFaults
    /\ nFaults' = nFaults + 1
    /\ \/ /\ ~dirUp
          /\ alive' = FALSE
          /\ UNCHANGED << dirUp, now, winFiles, hLocal, hPc >>
       \/ /\ \E in \in FaultInputs :
               LET exe  == IF in.exeOk THEN AgentExe ELSE "unknown"
                   path == JsonPath(AgentPid, now + in.tick)
               IN  /\ now' = now + in.tick
                   /\ winFiles' = IF in.openOk THEN winFiles \cup { path } ELSE winFiles
                   /\ hLocal' = [hLocal EXCEPT ![t] =
                                   [code |-> in.code, exePath |-> exe,
                                    jsonFile |-> IF in.openOk THEN path ELSE "",
                                    ret |-> ""]]
          /\ dirUp' = TRUE
          /\ alive' = alive
          /\ hPc' = [hPc EXCEPT ![t] = "lock"]
    /\ UNCHANGED << agent, failAt, osConfig, configRuns, storeVars, mainVars,
                    files, nWrites, readdirOrder, watcherVars, g_originalFilter >>

\* Line 138.  Locking a std::mutex the calling thread already owns is
\* undefined: the thread blocks for ever or the process is terminated.
HLock(t) ==
    /\ alive /\ hPc[t] = "lock"
    /\ \/ /\ g_crashMutex # t
          /\ BeginUpdate(t, TrapEvent(t))
          /\ hPc' = [hPc EXCEPT ![t] = "flag"]
          /\ alive' = alive
       \/ /\ g_crashMutex = t
          /\ hPc' = [hPc EXCEPT ![t] = "hung"]
          /\ alive' = alive
          /\ UNCHANGED << g_crashMutex, nUpd, updOf, lastEvent >>
       \/ /\ g_crashMutex = t
          /\ alive' = FALSE
          /\ UNCHANGED << hPc, g_crashMutex, nUpd, updOf, lastEvent >>
    /\ UNCHANGED << agent, envVars, g_crashHappened, g_lastCrash, stamp, mainVars,
                    dirVars, watcherVars, g_originalFilter, hLocal, winFiles,
                    nFaults >>

\* Lines 139-144, one assignment at a time.
HWrite(t) ==
    /\ alive /\ hPc[t] \in WritePcs
    /\ WriteField(t, hPc[t], TrapEvent(t))
    /\ hPc' = [hPc EXCEPT ![t] = NextWritePc(hPc[t])]
    /\ UNCHANGED << agent, alive, envVars, g_crashMutex, nUpd, updOf, lastEvent,
                    mainVars, dirVars, watcherVars, g_originalFilter, hLocal,
                    winFiles, nFaults >>

\* Line 145.
HUnlock(t) ==
    /\ alive /\ hPc[t] = "unlock"
    /\ Unlock(t)
    /\ hPc' = [hPc EXCEPT ![t] = "chain"]
    /\ UNCHANGED << agent, alive, envVars, g_crashHappened, g_lastCrash, stamp,
                    nUpd, updOf, lastEvent, mainVars, dirVars, watcherVars,
                    g_originalFilter, hLocal, winFiles, nFaults >>

\* Lines 148-151: the result is the previous filter's when there is one.
\* EXCEPTION_CONTINUE_EXECUTION resumes the faulting thread; any other result
\* ends the process.
HChain(t) ==
    /\ alive /\ hPc[t] = "chain"
    /\ \E r \in (IF g_originalFilter = "null" THEN { EXCEPTION_EXECUTE_HANDLER }
                 ELSE FilterResults) :
         /\ IF r = "EXCEPTION_CONTINUE_EXECUTION"
            THEN /\ hPc' = [hPc EXCEPT ![t] = "none"]
                 /\ hLocal' = [hLocal EXCEPT ![t] = NoLocal]
                 /\ alive' = alive
            ELSE /\ hPc' = [hPc EXCEPT ![t] = "returned"]
                 /\ hLocal' = [hLocal EXCEPT ![t].ret = r]
                 /\ alive' = FALSE
    /\ UNCHANGED << agent, envVars, storeVars, mainVars, dirVars, watcherVars,
                    g_originalFilter, winFiles, nFaults >>

(***************************************************************************)
(* Specifications                                                          *)
(***************************************************************************)
\* Configurations the system may be in before the agent first runs.
InitialConfigs(a) ==
    IF a = "windows"
    THEN { [FreshConfig EXCEPT !.werKey = k, !.DumpFolder = f, !.DumpType = d] :
             k \in BOOLEAN,
             f \in { << >>, << "C:\\dumps" >>, << CRASH_SUBDIR >> },
             d \in { << >>, << 1 >>, << FullDump >> } }
    ELSE { [FreshConfig EXCEPT !.core_pattern = c, !.rlimitCore = l] :
             c \in { "core", CORE_PATTERN_VALUE },
             l \in { "limited", "unlimited" } }

AllFailSteps == FailSteps("windows") \cup FailSteps("linux")

\* What the crash directory holds when the agent starts: nothing, or an
\* artifact left there by an earlier session.
EmptyDir ==
    [files |-> [n \in ArtifactNames |-> Absent], now |-> 0, nWrites |-> 0]

LeftOverDir ==
    [files |-> [n \in ArtifactNames |->
                  IF n = Name42 THEN [mtime |-> 1, id |-> 1] ELSE Absent],
     now |-> 1, nWrites |-> 1]

StartDirs == { EmptyDir, LeftOverDir }

\* The state after construction, for the configuration failures in fails, on
\* a freshly installed system (fresh) or on any prior configuration, the
\* crash directory of the Linux agent being one of dirs.
InitFrom(fails, fresh, dirs) ==
    /\ agent \in Agents
    /\ alive = TRUE
    /\ failAt \in (fails \cap FailSteps(agent))
    /\ osConfig \in (IF fresh THEN { FreshConfig } ELSE InitialConfigs(agent))
    /\ configRuns = << >>
    /\ dirUp \in BOOLEAN
    /\ g_crashHappened = FALSE
    /\ g_lastCrash = EmptyCrashInfo(agent)
    /\ g_crashMutex = "none"
    /\ mainPc = "config"
    /\ crash = FALSE
    /\ response = NoResponse
    /\ everSentCrash = FALSE
    /\ \E d \in (IF agent = "linux" THEN dirs ELSE { EmptyDir }) :
         /\ files = d.files
         /\ now = d.now
         /\ nWrites = d.nWrites
    /\ readdirOrder \in (IF agent = "linux" THEN Orders
                         ELSE { CHOOSE o \in Orders : TRUE })
    /\ wPc = "idle"
    /\ lastCore = ""
    /\ listing = {}
    /\ newestFull = ""
    /\ pidVal = ToUnsignedLong(0)
    /\ g_originalFilter \in (IF agent = "windows" THEN { "null", "set" } ELSE { "null" })
    /\ hPc = [t \in HThreads |-> "none"]
    /\ hLocal = [t \in HThreads |-> NoLocal]
    /\ winFiles = {}
    /\ nFaults = 0
    /\ stamp = InitialStamp
    /\ nUpd = 0
    /\ updOf = [t \in Threads |-> 0]
    /\ lastEvent = [exePath |-> "", pid |-> ZeroOf(agent),
                    exceptionCode |-> ZeroOf(agent), crashFile |-> ""]
    /\ loadEpoch = 0
    /\ reportCount = [i \in 0..MaxWrites |-> 0]
    /\ wArt = 0
    /\ dirChanged = TRUE
    /\ unreported = FALSE

InitWith(fails, fresh) == InitFrom(fails, fresh, StartDirs)

Init == InitWith({ "none" }, TRUE)

Environment ==
    \/ EnvWriteArtifact
    \/ EnvRemoveArtifact
    \/ EnvDirDown
    \/ EnvDirUp

Main ==
    \/ MainConfigure
    \/ MainCreateDir
    \/ MainStartDetector
    \/ MainStartServer

Responder ==
    \/ RespAcceptFail
    \/ RespLoad
    \/ RespLock
    \/ RespBuild
    \/ RespSend

Watcher ==
    \/ PollCheck
    \/ PollList
    \/ PollStat
    \/ WatcherLock
    \/ WatcherWrite
    \/ WatcherUnlock

Filter ==
    \E t \in HThreads :
        \/ Fault(t)
        \/ HLock(t)
        \/ HWrite(t)
        \/ HUnlock(t)
        \/ HChain(t)

Next == Environment \/ Main \/ Responder \/ Watcher \/ Filter

Spec == Init /\ [][Next]_vars

(***************************************************************************)
(* ConfigSpec: the configurator run repeatedly against one system, whose   *)
(* prior configuration and whose rejected call are arbitrary               *)
(***************************************************************************)
ConfigInit == InitWith(AllFailSteps, FALSE)

\* The configurator is called once more (Linux line 64, Windows line 71).
RunConfigurator ==
    /\ Len(configRuns) < MaxRuns
    /\ LET r == Configure(agent, osConfig, failAt)
       IN  /\ osConfig' = r.cfg
           /\ configRuns' = Append(configRuns, r)
    /\ UNCHANGED << agent, alive, failAt, dirUp, storeVars, mainVars, dirVars,
                    watcherVars, trapVars >>

ConfigSpec == ConfigInit /\ [][RunConfigurator]_vars

(***************************************************************************)
(* PollerSpec: the Linux agent after a successful start-up, its crash      *)
(* directory staying accessible and only ever gaining artifacts; the       *)
(* watcher thread is scheduled fairly                                      *)
(***************************************************************************)
PollerInit ==
    /\ InitWith({ "none" }, TRUE)
    /\ agent = "linux"
    /\ dirUp

PollerStartUp == Main

PollerNext == EnvWriteArtifact \/ PollerStartUp \/ Watcher

PollerSpec == PollerInit /\ [][PollerNext]_vars /\ WF_vars(Watcher) /\ WF_vars(Main)

(***************************************************************************)
(* BootSpec: start-up of either agent on a fresh system in which any one   *)
(* configuration call, or none, is rejected, followed by queries           *)
(***************************************************************************)
BootInit == InitWith(AllFailSteps, TRUE)

BootNext == Main \/ Responder

BootSpec == BootInit /\ [][BootNext]_vars

(***************************************************************************)
(* PreexistingSpec: the Linux agent started on a crash directory that      *)
(* already holds artifacts of earlier sessions, in a session in which no   *)
(* artifact is written; artifacts may be removed and the directory may     *)
(* become inaccessible                                                     *)
(***************************************************************************)
\* The directories that hold one or more artifacts, with every order of
\* their modification times (equal ones included).
PreexistingDirs ==
    { [files |-> f,
       now |-> Cardinality(ArtifactNames),
       nWrites |-> Cardinality({ n \in ArtifactNames : f[n].id # 0 })] :
        f \in { g \in [ArtifactNames ->
                         { Absent } \cup
                         { [mtime |-> t, id |-> i] :
                             t \in 1..Cardinality(ArtifactNames),
                             i \in 1..Cardinality(ArtifactNames) }] :
                  /\ \E n \in ArtifactNames : g[n].id # 0
                  /\ { g[n].id : n \in { m \in ArtifactNames : g[m].id # 0 } }
                       = 1..Cardinality({ n \in ArtifactNames : g[n].id # 0 })
                  /\ \A n, m \in ArtifactNames :
                        (n # m /\ g[n].id # 0) => g[n].id # g[m].id } }

PreexistingInit == InitFrom({ "none" }, TRUE, PreexistingDirs) /\ agent = "linux"

\* StartTCPServer's loop on Linux, where a failing accept() is retried.
LinuxResponder ==
    \/ RespLoad
    \/ RespLock
    \/ RespBuild
    \/ RespSend

PreexistingNext ==
    \/ EnvRemoveArtifact
    \/ EnvDirDown
    \/ EnvDirUp
    \/ Main
    \/ LinuxResponder
    \/ Watcher

PreexistingSpec == PreexistingInit /\ [][PreexistingNext]_vars

(***************************************************************************)
(* Properties of the Store and the responder                               *)
(***************************************************************************)
\* The record an update for event ev leaves in the Store.
RecordOf(ev) ==
    [haveCrash |-> TRUE, exePath |-> ev.exePath, pid |-> ev.pid,
     exceptionCode |-> ev.exceptionCode, crashFile |-> ev.crashFile]

CrashResponse == mainPc = "send" /\ response.text # NoCrashResponse

\* C1: snapshot consistency.  A response is either the no-crash text, built
\* from no field of the record, or built from fields that one and the same
\* update wrote, never from the initial record's; and when that update is the
\* latest one the text is the rendering of exactly the record it installs.
SnapshotConsistency ==
    mainPc = "send" =>
        \/ response.text = NoCrashResponse /\ response.stamps = {}
        \/ /\ response.text # NoCrashResponse
           /\ Cardinality(response.stamps) = 1
           /\ 0 \notin response.stamps
           /\ response.stamps = { nUpd } =>
                response.text \in { Render(agent, RecordOf(lastEvent), m) :
                                      m \in ManipTextsOf(agent) }

\* A crash is reported by a query that loaded the flag while the first update
\* was still inside its critical section.
SnapshotConsistencyWitness == CrashResponse /\ response.epoch = 0

LastCrashWins ==
    (~InUpdate /\ nUpd >= 1) =>
        /\ g_lastCrash = RecordOf(lastEvent)
        /\ g_crashHappened
        /\ \A f \in DataFields : stamp[f] = nUpd

\* Two faults in rapid succession on two threads, both processed.
LastCrashWinsWitness ==
    /\ agent = "windows" /\ nUpd = 2 /\ ~InUpdate
    /\ \A t \in HThreads : hPc[t] \in { "chain", "returned" }

\* C4: presence is monotonic.  Both presence indications start false, no step
\* turns either back to false, and once a crash has been reported every
\* later response reports one.
PresenceMonotonic ==
    /\ ~g_crashHappened /\ ~g_lastCrash.haveCrash
    /\ [][/\ g_crashHappened => g_crashHappened'
          /\ g_lastCrash.haveCrash => g_lastCrash'.haveCrash]_vars
    /\ [](everSentCrash /\ mainPc = "send" => response.text # NoCrashResponse)

\* A crash was reported, a second update was made, and a later query is
\* answered.
PresenceMonotonicWitness == everSentCrash /\ mainPc = "send" /\ nUpd >= 2

\* C5: at most one update per artifact.
AtMostOneUpdatePerArtifact == \A i \in 1..MaxWrites : reportCount[i] <= 1

\* C6: dedup in the poller.  A poll cycle whose directory is as it was when
\* the poller last reported ends without a Store update: the poller goes back
\* to sleep, and the record, the count of updates and lastCore are as before.
PollerDedup ==
    [][(/\ agent = "linux" /\ alive /\ wPc = "stat" /\ ~dirChanged
        /\ (wPc' # wPc \/ alive' # alive))
       => (/\ wPc' = "sleep" /\ alive'
           /\ g_lastCrash' = g_lastCrash
           /\ g_crashHappened' = g_crashHappened
           /\ nUpd' = nUpd
           /\ lastCore' = lastCore)]_vars

\* The poller examines a directory unchanged since its last report, the
\* update for that report being complete.
PollerDedupWitness ==
    /\ agent = "linux" /\ alive /\ wPc = "stat" /\ ~dirChanged
    /\ nUpd >= 1 /\ ~InUpdate /\ lastCore # ""

\* C7: no-crash default.  While no artifact has been in the directory and no
\* fault has been trapped, every response is the no-crash text.
NoCrashDefault ==
    (mainPc = "send" /\ nWrites = 0 /\ nFaults = 0) => response.text = NoCrashResponse

NoCrashDefaultWitness ==
    /\ mainPc = "send" /\ nWrites = 0 /\ nFaults = 0
    /\ response.text = NoCrashResponse
    /\ agent = "linux" /\ wPc = "stat"

\* C8: canonical wire format.  A crash response built from the record the
\* Store holds is the object with crash, pid, exe, exception, file in that
\* order whose exception is 0x followed by the code's lowercase hexadecimal
\* digits: the text the Windows responder produces for that record.
CanonicalWireFormat ==
    (CrashResponse /\ response.stamps = { nUpd } /\ ~InUpdate) =>
        response.text = RenderWindows(g_lastCrash)

\* C9: no crash is dropped.  After every write of an artifact whose
\* modification time is later than that of every file in the directory, a
\* Store update begins.
NoCrashDropped == unreported ~> ~unreported

\* C10: idempotent configuration.  Every further run of the configurator
\* returns what the run before it returned and leaves the configuration that
\* run left.
ConfigIdempotent ==
    \A i \in 1..(Len(configRuns) - 1) : configRuns[i + 1] = configRuns[i]

\* The configurator ran twice on a system that held other values, and
\* succeeded.
ConfigIdempotentWitness ==
    /\ Len(configRuns) >= 2
    /\ configRuns[2].result
    /\ osConfig # FreshConfig

(***************************************************************************)
(* Properties of start-up, of error handling and of the detectors          *)
(***************************************************************************)
\* C11: configuration failure is non-fatal and reported.  Once the
\* configurator has run in an environment that rejected one of its calls,
\* its result is the failure result (which main logs), the agent is alive
\* and the Store is still the empty record.
ConfigFailureReported ==
    (Len(configRuns) >= 1 /\ failAt # "none") =>
        /\ ~configRuns[1].result
        /\ mainPc \in { "mkdir", "start" } => alive
        /\ g_lastCrash = EmptyCrashInfo(agent) /\ ~g_crashHappened

\* C12: poll-time directory errors are transient.  The poller, between the
\* listing of the directory and the comparison with lastCore, never ends the
\* process.
PollErrorsTransient == (agent = "linux" /\ wPc \in { "list", "stat" }) => alive

\* C13: malformed artifact name.  The record the poller has installed for an
\* artifact whose name has no process id holds the id -1: exe is "unknown",
\* the code is the placeholder, and the id reads -1.
MalformedNameSentinel ==
    (agent = "linux" /\ ~InUpdate /\ g_lastCrash.crashFile = PathOf(NameTmp)) =>
        /\ g_lastCrash.haveCrash
        /\ g_lastCrash.exePath = "unknown"
        /\ g_lastCrash.exceptionCode = PlaceholderCode
        /\ to_string(g_lastCrash.pid) = "-1"

\* C14: no Store operation blocks indefinitely.  No thread waits for the
\* Store lock while it is itself the thread that holds it, a wait that no
\* release can end.
LockAttemptGrantable == \A t \in HThreads : ~(hPc[t] = "lock" /\ g_crashMutex = t)

\* C15: the trap variant's record names a real artifact.  The record the
\* filter has installed holds the agent's process id and a fault code, and
\* its crashFile is a record file that exists in the crash directory.
TrapRecordNamesArtifact ==
    (agent = "windows" /\ ~InUpdate /\ g_lastCrash.haveCrash) =>
        /\ g_lastCrash.pid = AgentPid
        /\ g_lastCrash.exceptionCode = lastEvent.exceptionCode
        /\ g_lastCrash.crashFile \in winFiles

\* C16: poller record synthesis.  Every record the poller has installed is
\* present, with exe "unknown", the placeholder code and the full path of an
\* artifact (never of an entry that is no regular file or lacks the prefix);
\* for core.42 the process id is 42.
PollerRecordSynthesis ==
    (agent = "linux" /\ ~InUpdate /\ nUpd >= 1) =>
        /\ g_lastCrash.haveCrash
        /\ g_lastCrash.exePath = "unknown"
        /\ g_lastCrash.exceptionCode = << 0, 0, 49152, 5 >>
        /\ g_lastCrash.crashFile \in { PathOf(n) : n \in ArtifactNames }
        /\ g_lastCrash.crashFile = CRASH_DIR \o "/core.42" =>
             g_lastCrash.pid = << 0, 0, 0, 42 >>
        /\ reportCount[0] = 0

\* core.42 was selected as the newest of two artifacts and its record is
\* installed.
PollerRecordSynthesisWitness ==
    /\ agent = "linux" /\ ~InUpdate /\ nUpd >= 1
    /\ g_lastCrash.crashFile = CRASH_DIR \o "/core.42"
    /\ files[NameTmp].id # 0

\* C17: trap handler step order.  A filter invocation that is inside or past
\* its Store update has made its attempt to write the record file; one that
\* chains or has returned has completed its update, every field of the Store
\* being written by that update or a later one; and what it returns is the
\* previous filter's result, or the execute-handler result without one.
TrapStepOrder ==
    \A t \in HThreads :
        /\ hPc[t] \in UpdatePcs \cup { "chain", "returned" } =>
             /\ hLocal[t].exePath # ""
             /\ hLocal[t].jsonFile # "" => hLocal[t].jsonFile \in winFiles
        /\ hPc[t] \in { "chain", "returned" } =>
             /\ updOf[t] >= 1
             /\ \A f \in DOMAIN stamp : stamp[f] >= updOf[t]
             /\ g_crashMutex # t
        /\ hPc[t] = "returned" =>
             IF g_originalFilter = "null"
             THEN hLocal[t].ret = "EXCEPTION_EXECUTE_HANDLER"
             ELSE hLocal[t].ret \in FilterResults \ { "EXCEPTION_CONTINUE_EXECUTION" }

\* A filter invocation with no previous filter installed has returned.
TrapStepOrderWitness ==
    /\ agent = "windows" /\ g_originalFilter = "null"
    /\ \E t \in HThreads : hPc[t] = "returned" /\ hLocal[t].jsonFile \in winFiles

\* C18: Variant B configuration is two independent steps.  After the
\* configurator ran, the core-size limit is unlimited unless setrlimit was
\* rejected, and the core pattern is the agent's unless its write was.
ConfigStepsIndependent ==
    (agent = "linux" /\ Len(configRuns) >= 1) =>
        /\ failAt # "setrlimit" => osConfig.rlimitCore = "unlimited"
        /\ failAt \notin { "open", "write" } => osConfig.core_pattern = CORE_PATTERN_VALUE

\* C19: target-directory unavailability at start-up is never fatal.  The
\* agent is alive whenever main is at the creation of the crash directory.
StartupDirNeverFatal == mainPc = "mkdir" => alive

\* C20: flag/record agreement, for the states in which no detector holds the
\* Store lock.  The flag equals haveCrash, and when haveCrash is true all
\* fields of the record were written by one and the same completed update.
FlagRecordAgreement ==
    ~InUpdate =>
        /\ g_crashHappened = g_lastCrash.haveCrash
        /\ g_lastCrash.haveCrash =>
             \E k \in 1..nUpd : \A f \in DOMAIN stamp : stamp[f] = k

\* The responder holds the lock over a record that is present.
FlagRecordAgreementWitness ==
    ~InUpdate /\ g_lastCrash.haveCrash /\ g_crashMutex = "main" /\ mainPc = "build"

\* C20 as stated, for every state in which haveCrash is true: the fields of
\* the record are those of one completed update.
RecordOfOneCompletedUpdate ==
    g_lastCrash.haveCrash =>
        \E k \in 1..Completed : \A f \in DataFields : stamp[f] = k

\* C21: pre-existing artifacts are reported.  The poller's last-seen path
\* starts empty.  A poll made while it is empty that examines a directory
\* holding artifacts without error selects one that no other is newer than
\* and goes on to update the Store for it.  Whenever the poller is outside an
\* update the last-seen path equals the record's crashFile, and once it is
\* not empty the flag and the record say that a crash happened.  Every query
\* issued after an update completed reports a crash, although no artifact
\* was written in this session.
PreexistingReported ==
    /\ lastCore = ""
    /\ [][(/\ wPc = "stat" /\ wPc' # "stat" /\ alive'
            /\ lastCore = "" /\ listing # {})
           => /\ wPc' = "lock"
              /\ \E n \in listing :
                    /\ newestFull' = PathOf(n)
                    /\ lastCore' = PathOf(n)
                    /\ \A m \in listing : files[m].mtime <= files[n].mtime]_vars
    /\ [](wPc \notin ({ "lock" } \cup UpdatePcs) =>
            /\ lastCore = g_lastCrash.crashFile
            /\ lastCore # "" => (g_crashHappened /\ g_lastCrash.haveCrash /\ nUpd >= 1))
    /\ []((mainPc = "send" /\ response.epoch >= 1) =>
            response.text # NoCrashResponse)

\* Two artifacts were in the directory at the start, core.tmp the newer one;
\* the first update was made for core.tmp and a query has reported it.
PreexistingReportedWitness ==
    /\ files[Name42].id # 0 /\ files[NameTmp].id # 0
    /\ files[NameTmp].mtime > files[Name42].mtime
    /\ nUpd = 1 /\ ~InUpdate
    /\ lastCore = PathOf(NameTmp)
    /\ g_lastCrash.crashFile = PathOf(NameTmp)
    /\ CrashResponse /\ response.epoch = 1

====
